---- MODULE Spec2Model ----
(***************************************************************************)
(* A model of obf-perf: the process resource monitor                       *)
(* (obf_perf/resource_monitor.py), the benchmark pipeline                  *)
(* (obf_perf/obf_perf_core.py) and the result container                    *)
(* (obf_perf/result_container.py).                                         *)
(*                                                                         *)
(* Three specifications share the variables:                               *)
(*   Spec    one call of perform_analysis: one action per step of the      *)
(*           pipeline, the spawning of a child by run() and the rest of    *)
(*           the stage after the wait for it being two steps, with an      *)
(*           interrupt possible at every point;                            *)
(*   SpecRM  a client of the ResourceMonitor class calling the             *)
(*           constructor, run() and the getters in any order;              *)
(*   SpecRC  a client of the ResultContainer class adding Results and      *)
(*           calling metric_results and get_average_results.               *)
(* Times are integers (one unit = one clock tick), a size in kilobytes is  *)
(* the pair <<bytes, 1000>> of the true division bytes / 1000.             *)
(***************************************************************************)
EXTENDS Integers, Sequences, FiniteSets, TLC

VARIABLES
    (* arguments of perform_analysis and the environment it runs in *)
    obf_configs, runs, warmup, optimization_level, step_callback,
    tigress_home, source_readable,
    (* position in perform_analysis *)
    pc, ci, it, exc,
    (* ambient state: the working directory, the scratch directory, the
       child run() has spawned and waits for, and the number of children
       spawned and not yet waited for *)
    cwd, tmp_dir, p, in_flight,
    (* locals of perform_analysis *)
    results, ncd, halstead_difficulty,
    monitors, obf_monitor, gcc1_monitor, gcc2_monitor, prg_monitor,
    a_out, load,
    (* history of the run, read by the properties only *)
    callbacks, iterations, added, spawned, last,
    (* the clients of the classes: what the last call did, and the Results
       handed to add_result so far *)
    ret, log,
    (* halstead_difficulty: the file metrics.json of the working directory,
       the position in the function, its locals, and the number of tool
       invocations and of calls so far *)
    metrics_json, hpc, functions, difficulty, invocations, hd_calls,
    (* run() at the level of the pipes: the bytes in the two pipes, what
       the child still does, and the position of the parent *)
    stdout_pipe, stderr_pipe, child, parent

paInputs == <<obf_configs, runs, warmup, optimization_level, step_callback,
              tigress_home, source_readable>>
paLocals == <<results, ncd, halstead_difficulty, monitors, obf_monitor,
              gcc1_monitor, gcc2_monitor, prg_monitor, a_out, load>>
paHistory == <<callbacks, iterations, added, spawned, last>>
clients == <<ret, log>>
os == <<p, in_flight>>
hdVars == <<metrics_json, hpc, functions, difficulty, invocations, hd_calls>>
pipeVars == <<stdout_pipe, stderr_pipe, child, parent>>
vars == <<paInputs, pc, ci, it, exc, cwd, tmp_dir, os, paLocals, paHistory,
          clients, hdVars, pipeVars>>

(***************************************************************************)
(* Bounds of the model.                                                    *)
(***************************************************************************)
MaxConfigs == 2
MaxRuns == 2
MaxWarmup == 1
MaxRunCalls == 2
MaxArgs == 1

(***************************************************************************)
(* Exceptions.  An exception is a record: its type and, for                *)
(* CalledProcessError, the returncode it carries.                          *)
(***************************************************************************)
NoExc == [type |-> "None", returncode |-> 0]
Raise(t) == [type |-> t, returncode |-> 0]
CalledProcessError(status) == [type |-> "CalledProcessError", returncode |-> status]

(***************************************************************************)
(* The operating system.  A process outcome `proc` says what happens when  *)
(* the wrapper is asked to run a command: whether the wrapper finds the    *)
(* target executable, the target's exit code, and the readings of the      *)
(* terminated child.                                                       *)
(***************************************************************************)
NoUsage == [wall |-> 0, utime |-> 0, stime |-> 0, maxmem |-> 0, minflt |-> 0,
            majflt |-> 0, nswap |-> 0, nvcsw |-> 0, nivcsw |-> 0]

\* The readings of one external command of the pipeline under a host load.
\* Under "calm" the obfuscator's wall time exceeds the -O0 compile's and its
\* system time is below it; under "busy" it is the other way round.
Usage(kind, ld) ==
    CASE kind = "tigress" /\ ld = "calm" ->
           [wall |-> 5, utime |-> 3, stime |-> 1, maxmem |-> 9, minflt |-> 6,
            majflt |-> 2, nswap |-> 0, nvcsw |-> 3, nivcsw |-> 1]
      [] kind = "tigress" /\ ld = "busy" ->
           [wall |-> 3, utime |-> 4, stime |-> 2, maxmem |-> 8, minflt |-> 7,
            majflt |-> 3, nswap |-> 0, nvcsw |-> 4, nivcsw |-> 2]
      [] kind = "gcc-O0" /\ ld = "calm" ->
           [wall |-> 2, utime |-> 3, stime |-> 2, maxmem |-> 4, minflt |-> 2,
            majflt |-> 0, nswap |-> 0, nvcsw |-> 1, nivcsw |-> 0]
      [] kind = "gcc-O0" /\ ld = "busy" ->
           [wall |-> 4, utime |-> 1, stime |-> 1, maxmem |-> 5, minflt |-> 3,
            majflt |-> 1, nswap |-> 0, nvcsw |-> 2, nivcsw |-> 1]
      [] kind = "gcc-Ok" /\ ld = "calm" ->
           [wall |-> 6, utime |-> 5, stime |-> 3, maxmem |-> 6, minflt |-> 4,
            majflt |-> 0, nswap |-> 0, nvcsw |-> 1, nivcsw |-> 2]
      [] kind = "gcc-Ok" /\ ld = "busy" ->
           [wall |-> 7, utime |-> 6, stime |-> 4, maxmem |-> 7, minflt |-> 5,
            majflt |-> 1, nswap |-> 0, nvcsw |-> 2, nivcsw |-> 3]
      [] kind = "./a.out" /\ ld = "calm" ->
           [wall |-> 1, utime |-> 1, stime |-> 0, maxmem |-> 2, minflt |-> 3,
            majflt |-> 1, nswap |-> 0, nvcsw |-> 2, nivcsw |-> 1]
      [] kind = "./a.out" /\ ld = "busy" ->
           [wall |-> 2, utime |-> 1, stime |-> 1, maxmem |-> 3, minflt |-> 5,
            majflt |-> 0, nswap |-> 0, nvcsw |-> 4, nivcsw |-> 3]
      [] OTHER -> NoUsage
Loads == {"calm", "busy"}

\* /usr/bin/time exits with the target's exit code, and with 127 when it
\* cannot run the target (it then prints "cannot run ..." on stderr).
WrapperNotFoundCode == 127
WrapperExitCode(proc) == IF proc.found THEN proc.code ELSE WrapperNotFoundCode

\* os.wait4 yields the wait status of a child that exited: the exit code in
\* the high byte.
StatusShift == 256
WaitStatus(code) == code * StatusShift

(***************************************************************************)
(* Text.  A text is a sequence of tokens: a newline, a chunk of characters *)
(* holding no newline, or a decimal number.                                *)
(***************************************************************************)
NL == [k |-> "nl", v |-> 0]
Txt(i) == [k |-> "txt", v |-> i]
Num(n) == [k |-> "num", v |-> n]

\* str.splitlines(): the lines without their line ends; a text ending in a
\* newline has no empty last line.
RECURSIVE SplitFrom(_, _, _)
SplitFrom(t, i, cur) ==
    IF i > Len(t) THEN (IF cur = <<>> THEN <<>> ELSE <<cur>>)
    ELSE IF t[i] = NL THEN <<cur>> \o SplitFrom(t, i + 1, <<>>)
    ELSE SplitFrom(t, i + 1, Append(cur, t[i]))
splitlines(t) == SplitFrom(t, 1, <<>>)

\* "\n".join(lines)
RECURSIVE join(_)
join(lines) ==
    IF lines = <<>> THEN <<>>
    ELSE IF Len(lines) = 1 THEN lines[1]
    ELSE lines[1] \o <<NL>> \o join(Tail(lines))

\* int(line) succeeds on a line that is one number.
IsInt(line) == Len(line) = 1 /\ line[1].k = "num"

\* What /usr/bin/time -f "\n%M" writes on stderr: the target's own stderr
\* (or its own complaint when it cannot run the target), a note when the
\* exit code is not zero, then a newline, the peak memory and a newline.
\* Txt(1) is its "cannot run" line, Txt(2) its "Command exited with non-zero
\* status" line.
WrapperStderr(proc) ==
    (IF proc.found THEN proc.err ELSE <<Txt(1), NL>>)
    \o (IF WrapperExitCode(proc) # 0 THEN <<Txt(2), NL>> ELSE <<>>)
    \o <<NL, Num(proc.usage.maxmem), NL>>

(***************************************************************************)
(* class ResourceMonitor.  An attribute that was never assigned is "unset".*)
(* started and completed count the executions of run() on the instance and *)
(* those that returned; they are history, not attributes.                  *)
(***************************************************************************)
TimeWrapper == <<"/usr/bin/time", "-f", "\\n%M">>

\* __init__ without its validation.
InitRejects_nothing(args) == FALSE

\* __init__: the validation; the instance is built by ResourceMonitor.
InitRejects(args) == Len(args) = 0

ResourceMonitor(args, check) ==
    [_args |-> args, _check |-> check, _run |-> FALSE,
     _wall_time |-> "unset", _resource_usage |-> "unset",
     _max_memory |-> "unset", _stdout |-> "unset", _stderr |-> "unset",
     started |-> 0, completed |-> 0]

\* run(): the command spawned, and the outcome of the call: the monitor
\* after it, the exception raised (NoExc when it returns) and the value
\* returned.
SpawnArgs(m) == TimeWrapper \o m._args

\* run() after the check of the exit status: the readings are stored, the
\* wrapper's report is parsed off stderr and the monitor is marked as run.
StoreReadings(m, proc) ==
    LET status == WaitStatus(WrapperExitCode(proc))
        stderr_lines == splitlines(WrapperStderr(proc))
        stored == [m EXCEPT !._wall_time = proc.usage.wall,
                            !._resource_usage = proc.usage,
                            !._stdout = proc.out,
                            !._stderr = WrapperStderr(proc),
                            !.started = @ + 1]
    IN  IF stderr_lines = <<>>
        THEN [m |-> stored, exc |-> Raise("IndexError"), value |-> "none"]
        ELSE IF ~IsInt(stderr_lines[Len(stderr_lines)])
        THEN [m |-> stored, exc |-> Raise("ValueError"), value |-> "none"]
        ELSE [m |-> [stored EXCEPT
                       !._max_memory = stderr_lines[Len(stderr_lines)][1].v,
                       !._stderr = join(SubSeq(stderr_lines, 1,
                                               Len(stderr_lines) - 1))
                                   \o <<NL>>,
                       !._run = TRUE,
                       !.completed = @ + 1],
              exc |-> NoExc, value |-> status]

\* run() marking the monitor as run before it checks the exit status.
run_marking_first(m, proc) ==
    LET status == WaitStatus(WrapperExitCode(proc))
    IN  IF m._check /\ status # 0
        THEN [m |-> [m EXCEPT !.started = @ + 1, !._run = TRUE],
              exc |-> CalledProcessError(status), value |-> "none"]
        ELSE StoreReadings(m, proc)

\* run() never looking at the exit status.
run_unchecked(m, proc) == StoreReadings(m, proc)

run(m, proc) ==
    LET status == WaitStatus(WrapperExitCode(proc))
    IN  IF m._check /\ status # 0
        THEN [m |-> [m EXCEPT !.started = @ + 1],
              exc |-> CalledProcessError(status), value |-> "none"]
        ELSE StoreReadings(m, proc)

\* _ensure_run and the getters: a getter yields [ok |-> TRUE, val |-> v] or
\* fails with the RuntimeError of _ensure_run.
NotYetRun == [ok |-> FALSE, val |-> "RuntimeError"]
Returns(v) == [ok |-> TRUE, val |-> v]
\* A call that raised exception e.
Raised(e) == [ok |-> FALSE, val |-> e]

_ensure_run(m) == m._run

wall_time(m) == IF ~_ensure_run(m) THEN NotYetRun ELSE Returns(m._wall_time)
user_time(m) == IF ~_ensure_run(m) THEN NotYetRun ELSE Returns(m._resource_usage.utime)
system_time(m) == IF ~_ensure_run(m) THEN NotYetRun ELSE Returns(m._resource_usage.stime)
max_memory(m) == IF ~_ensure_run(m) THEN NotYetRun ELSE Returns(m._max_memory)
stdout(m) == IF ~_ensure_run(m) THEN NotYetRun ELSE Returns(m._stdout)
stderr(m) == IF ~_ensure_run(m) THEN NotYetRun ELSE Returns(m._stderr)
swaps(m) == IF ~_ensure_run(m) THEN NotYetRun ELSE Returns(m._resource_usage.nswap)
minor_page_faults(m) == IF ~_ensure_run(m) THEN NotYetRun ELSE Returns(m._resource_usage.minflt)
major_page_faults(m) == IF ~_ensure_run(m) THEN NotYetRun ELSE Returns(m._resource_usage.majflt)
page_faults(m) ==
    IF ~_ensure_run(m) THEN NotYetRun
    ELSE Returns(minor_page_faults(m).val + major_page_faults(m).val)
volountary_context_switches(m) ==
    IF ~_ensure_run(m) THEN NotYetRun ELSE Returns(m._resource_usage.nvcsw)
involountary_context_switches(m) ==
    IF ~_ensure_run(m) THEN NotYetRun ELSE Returns(m._resource_usage.nivcsw)
context_switches(m) ==
    IF ~_ensure_run(m) THEN NotYetRun
    ELSE Returns(volountary_context_switches(m).val
                 + involountary_context_switches(m).val)

Getters == {"stdout", "stderr", "swaps", "wall_time", "user_time", "system_time", "max_memory",
            "minor_page_faults", "major_page_faults", "page_faults",
            "volountary_context_switches", "involountary_context_switches",
            "context_switches"}

Get(g, m) ==
    CASE g = "stdout" -> stdout(m)
      [] g = "stderr" -> stderr(m)
      [] g = "swaps" -> swaps(m)
      [] g = "wall_time" -> wall_time(m)
      [] g = "user_time" -> user_time(m)
      [] g = "system_time" -> system_time(m)
      [] g = "max_memory" -> max_memory(m)
      [] g = "minor_page_faults" -> minor_page_faults(m)
      [] g = "major_page_faults" -> major_page_faults(m)
      [] g = "page_faults" -> page_faults(m)
      [] g = "volountary_context_switches" -> volountary_context_switches(m)
      [] g = "involountary_context_switches" -> involountary_context_switches(m)
      [] g = "context_switches" -> context_switches(m)


(***************************************************************************)
(* class Result and class ResultContainer.                                 *)
(***************************************************************************)
\* Result.fields(): the dataclass fields in declaration order.
Fields == <<"name",
            "obfuscation_wall_time", "obfuscation_user_time",
            "obfuscation_system_time", "obfuscation_memory",
            "compile_wall_time", "compile_user_time", "compile_system_time",
            "source_code_size", "executable_size", "lines_of_code",
            "norm_compression_distance", "halstead_difficulty",
            "execution_wall_time", "execution_user_time",
            "execution_system_time", "execution_memory",
            "execution_minor_page_faults", "execution_major_page_faults",
            "execution_total_page_faults",
            "execution_voluntary_context_switches",
            "execution_involuntary_context_switches",
            "execution_total_context_switches">>

Range(f) == {f[x] : x \in DOMAIN f}

EmptyDict == [x \in {} |-> <<>>]

\* add_result putting the new value in front of the list.
add_result_prepending(store, result) ==
    LET item_names == Range(Tail(Fields))
        old == IF result.name \in DOMAIN store THEN store[result.name]
               ELSE EmptyDict
        new == [metric_name \in DOMAIN old \cup item_names |->
                  IF metric_name \in item_names
                  THEN <<result[metric_name]>>
                       \o (IF metric_name \in DOMAIN old
                           THEN old[metric_name] ELSE <<>>)
                  ELSE old[metric_name]]
    IN  [n \in DOMAIN store \cup {result.name} |->
           IF n = result.name THEN new ELSE store[n]]

\* add_result: the items of the Result but the first are appended, each
\* to the list of its metric under result.name.
add_result(store, result) ==
    LET item_names == Range(Tail(Fields))
        old == IF result.name \in DOMAIN store THEN store[result.name]
               ELSE EmptyDict
        new == [metric_name \in DOMAIN old \cup item_names |->
                  IF metric_name \in item_names
                  THEN Append(IF metric_name \in DOMAIN old
                              THEN old[metric_name] ELSE <<>>,
                              result[metric_name])
                  ELSE old[metric_name]]
    IN  [n \in DOMAIN store \cup {result.name} |->
           IF n = result.name THEN new ELSE store[n]]

\* metric_results yielding, for each name, all that is stored under it.
metric_results_whole(store, metric_name) ==
    IF metric_name \notin Range(Fields)
    THEN Raised(Raise("RuntimeError"))
    ELSE Returns([obf_name \in DOMAIN store |-> store[obf_name]])

\* metric_results without the check of the metric name.
metric_results_unvalidated(store, metric_name) ==
    IF \E obf_name \in DOMAIN store : metric_name \notin DOMAIN store[obf_name]
    THEN Raised(Raise("KeyError"))
    ELSE Returns([obf_name \in DOMAIN store |-> store[obf_name][metric_name]])

\* metric_results: the name is checked against Result.fields(), then the
\* list of the metric is looked up under every name of the store; a lookup
\* of a key that is not there is a KeyError.
metric_results(store, metric_name) ==
    IF metric_name \notin Range(Fields)
    THEN Raised(Raise("RuntimeError"))
    ELSE IF \E obf_name \in DOMAIN store :
                metric_name \notin DOMAIN store[obf_name]
    THEN Raised(Raise("KeyError"))
    ELSE Returns([obf_name \in DOMAIN store |-> store[obf_name][metric_name]])

\* A number of the aggregates is a pair <<p, q>> standing for p / q; a
\* standard deviation is kept as its square.
Exact(x) == <<x, 1>>

RECURSIVE Sum(_)
Sum(l) == IF l = <<>> THEN 0 ELSE Head(l) + Sum(Tail(l))
Squares(l) == [i \in DOMAIN l |-> l[i] * l[i]]

\* statistics.mean and statistics.stdev (the sample standard deviation,
\* which needs two data points) of a list of integers.
mean(l) ==
    IF Len(l) < 1 THEN Raised(Raise("StatisticsError"))
    ELSE Returns(<<Sum(l), Len(l)>>)
stdev(l) ==
    IF Len(l) < 2 THEN Raised(Raise("StatisticsError"))
    ELSE Returns(<<Len(l) * Sum(Squares(l)) - Sum(l) * Sum(l),
                   Len(l) * (Len(l) - 1)>>)

\* AvgStd calling statistics for a single sample as well.
AvgStd_always_statistics(metric_result_list) ==
    [avg |-> mean(metric_result_list), std |-> stdev(metric_result_list)]

\* The two entries get_average_results computes for one list of samples.
AvgStd(metric_result_list) ==
    IF Len(metric_result_list) > 1
    THEN [avg |-> mean(metric_result_list), std |-> stdev(metric_result_list)]
    ELSE IF Len(metric_result_list) = 0
    THEN [avg |-> Raised(Raise("IndexError")),
          std |-> Raised(Raise("IndexError"))]
    ELSE [avg |-> Returns(Exact(metric_result_list[1])),
          std |-> Returns(Exact(0))]

\* get_average_results leaving out the names that have a single sample.
Aggregated_repeated_only(store) ==
    {obf_name \in DOMAIN store :
        \E metric_name \in DOMAIN store[obf_name] :
            Len(store[obf_name][metric_name]) > 1}

\* The names get_average_results makes an entry for.
Aggregated(store) == DOMAIN store

\* get_average_results: the pair (avg_results, std_results), or the
\* exception a computation raises (the lists of one name have one length,
\* so every computation that fails raises the same one).
get_average_results(store) ==
    LET failing == {x \in UNION {{<<obf_name, metric_name>> :
                                     metric_name \in DOMAIN store[obf_name]} :
                                 obf_name \in Aggregated(store)} :
                       ~AvgStd(store[x[1]][x[2]]).std.ok}
        first == CHOOSE x \in failing : TRUE
        params(which, obf_name) ==
            [metric_name \in {"name"} \cup DOMAIN store[obf_name] |->
                IF metric_name = "name" THEN obf_name
                ELSE AvgStd(store[obf_name][metric_name])[which].val]
    IN  IF failing # {}
        THEN Raised(AvgStd(store[first[1]][first[2]]).std.val)
        ELSE Returns(<<[obf_name \in Aggregated(store) |->
                           params("avg", obf_name)],
                       [obf_name \in Aggregated(store) |->
                           params("std", obf_name)]>>)

(***************************************************************************)
(* obf_perf_core: configurations and the files of the scratch directory.   *)
(***************************************************************************)
\* A path is its directory, the file name without extension and the
\* extension; os.path.basename drops the directory, os.path.splitext(.)[0]
\* the extension.
Path(d, stem, ext) == [dir |-> d, stem |-> stem, ext |-> ext]
basename(path) == [path EXCEPT !.dir = ""]
splitext0(path) == [path EXCEPT !.ext = ""]
\* A path with neither directory nor extension is the string of its stem.
PathStr(path) == path.stem

__NORMAL_CONFIG ==
    [path |-> Path("", "00-normal", ""),
     params |-> <<"tigress", "--Environment=x86_64:Linux:Gcc:4.6",
                  "--Transform=Ident">>]

\* Configurations a user may load besides the identity one.  The params of
\* MissingInputConfig name an input file that does not exist: the
\* obfuscator exits non-zero on every invocation with them.
FlattenConfig ==
    [path |-> Path("configs", "flatten", ".txt"),
     params |-> <<"tigress", "--Environment=x86_64:Linux:Gcc:4.6",
                  "--Transform=Flatten">>]
MissingInputConfig ==
    [path |-> Path("configs", "missing", ".txt"),
     params |-> <<"tigress", "--Environment=x86_64:Linux:Gcc:4.6",
                  "--Transform=Flatten", "nonexistent.c">>]
ConfigPool == {__NORMAL_CONFIG, FlattenConfig, MissingInputConfig}

Injective(f) == \A x, y \in DOMAIN f : f[x] = f[y] => x = y
ConfigLists ==
    {l \in UNION {[1..n -> ConfigPool] : n \in 0..MaxConfigs} : Injective(l)}

WellFormed(obf_config) == "nonexistent.c" \notin Range(obf_config.params)

\* The obfuscated file of a configuration: its size in bytes and its number
\* of lines, the same on every run of the obfuscator.
ObfFileBytes(obf_config) ==
    IF obf_config = __NORMAL_CONFIG THEN 2000 ELSE 7000
ObfFileLines(obf_config) ==
    IF obf_config = __NORMAL_CONFIG THEN 40 ELSE 90
\* The executable gcc writes for an obfuscated file at a level.
AoutBytes(obf_config, level) ==
    (IF obf_config = __NORMAL_CONFIG THEN 16000 ELSE 24000) - 1000 * level
\* The static metrics of a configuration, <<numerator, denominator>>.
NcdOf(obf_config) == IF obf_config = __NORMAL_CONFIG THEN <<1, 10>> ELSE <<7, 10>>
HalsteadOf(obf_config) == IF obf_config = __NORMAL_CONFIG THEN 12 ELSE 35

\* metrics.file_size(path) / 1000: a true division.
Kilo == 1000
KiloBytes(bytes) == <<bytes, Kilo>>


(***************************************************************************)
(* obf_perf_core: the external commands.                                   *)
(***************************************************************************)
OptFlag(level) ==
    CASE level = 0 -> "-O0" [] level = 1 -> "-O1" [] level = 2 -> "-O2"
      [] OTHER -> "-O3"

\* The commands __obfuscate, __compile and __run hand to a monitor.
obf_call(obf_config) == obf_config.params \o <<"--out=obf_file", "source.c">>
\* The compiler always called without optimizations.
gcc_call_O0(level) == <<"gcc", "-O0", "obf_file">>

gcc_call(level) == <<"gcc", OptFlag(level), "obf_file">>
run_call == <<"./a.out">>

\* Which readings a command produces.
Kind(cmd) ==
    CASE cmd[1] = "tigress" -> "tigress"
      [] cmd[1] = "gcc" -> (IF cmd[2] = "-O0" THEN "gcc-O0" ELSE "gcc-Ok")
      [] OTHER -> "./a.out"

\* What may happen to a command of the pipeline under load ld: it exits
\* with 0 or with 1, or the wrapper does not find its executable.  An
\* obfuscator call naming a nonexistent input never exits with 0.
Procs(cmd, ld) ==
    {[found |-> f, code |-> c, usage |-> Usage(Kind(cmd), ld),
      out |-> <<>>, err |-> <<>>] :
        f \in BOOLEAN,
        c \in IF "nonexistent.c" \in Range(cmd) THEN {1} ELSE {0, 1}}

\* monitor = rm.ResourceMonitor(call); monitor.run()
Monitored(call, proc) == run(ResourceMonitor(call, TRUE), proc)

__obfuscate(obf_config, proc) == Monitored(obf_call(obf_config), proc)
\* __compile with a monitor that does not check the exit status.
__compile_unchecked(level, proc) ==
    run(ResourceMonitor(gcc_call(level), FALSE), proc)
__compile(level, proc) == Monitored(gcc_call(level), proc)
__run(proc) == Monitored(run_call, proc)

Max(a, b) == IF a >= b THEN a ELSE b

\* obf_config_filename_no_ext: the name the results of a configuration
\* are stored under.
ConfigName(obf_config) == PathStr(splitext0(basename(obf_config.path)))

\* The Result built without the clamping of the obfuscation times.
BuildResult_unclamped(obf_config, obf, gcc1, gcc2, prg, exe, the_ncd, the_halstead) ==
    [name |-> ConfigName(obf_config),
     obfuscation_wall_time |->
         wall_time(obf).val - wall_time(gcc1).val,
     obfuscation_user_time |->
         user_time(obf).val - user_time(gcc1).val,
     obfuscation_system_time |->
         system_time(obf).val - system_time(gcc1).val,
     obfuscation_memory |-> max_memory(obf).val,
     compile_wall_time |-> wall_time(gcc2).val,
     compile_user_time |-> user_time(gcc2).val,
     compile_system_time |-> system_time(gcc2).val,
     source_code_size |-> KiloBytes(ObfFileBytes(obf_config)),
     executable_size |-> KiloBytes(exe.bytes),
     lines_of_code |-> ObfFileLines(obf_config),
     norm_compression_distance |-> the_ncd,
     halstead_difficulty |-> the_halstead,
     execution_wall_time |-> wall_time(prg).val,
     execution_user_time |-> user_time(prg).val,
     execution_system_time |-> system_time(prg).val,
     execution_memory |-> max_memory(prg).val,
     execution_minor_page_faults |-> major_page_faults(prg).val,
     execution_major_page_faults |-> minor_page_faults(prg).val,
     execution_total_page_faults |-> page_faults(prg).val,
     execution_voluntary_context_switches |->
         volountary_context_switches(prg).val,
     execution_involuntary_context_switches |->
         involountary_context_switches(prg).val,
     execution_total_context_switches |-> context_switches(prg).val]

\* The Result perform_analysis builds from the four monitors of a measured
\* iteration.
BuildResult(obf_config, obf, gcc1, gcc2, prg, exe, the_ncd, the_halstead) ==
    [name |-> ConfigName(obf_config),
     obfuscation_wall_time |->
         Max(0, wall_time(obf).val - wall_time(gcc1).val),
     obfuscation_user_time |->
         Max(0, user_time(obf).val - user_time(gcc1).val),
     obfuscation_system_time |->
         Max(0, system_time(obf).val - system_time(gcc1).val),
     obfuscation_memory |-> max_memory(obf).val,
     compile_wall_time |-> wall_time(gcc2).val,
     compile_user_time |-> user_time(gcc2).val,
     compile_system_time |-> system_time(gcc2).val,
     source_code_size |-> KiloBytes(ObfFileBytes(obf_config)),
     executable_size |-> KiloBytes(exe.bytes),
     lines_of_code |-> ObfFileLines(obf_config),
     norm_compression_distance |-> the_ncd,
     halstead_difficulty |-> the_halstead,
     execution_wall_time |-> wall_time(prg).val,
     execution_user_time |-> user_time(prg).val,
     execution_system_time |-> system_time(prg).val,
     execution_memory |-> max_memory(prg).val,
     execution_minor_page_faults |-> major_page_faults(prg).val,
     execution_major_page_faults |-> minor_page_faults(prg).val,
     execution_total_page_faults |-> page_faults(prg).val,
     execution_voluntary_context_switches |->
         volountary_context_switches(prg).val,
     execution_involuntary_context_switches |->
         involountary_context_switches(prg).val,
     execution_total_context_switches |-> context_switches(prg).val]

(***************************************************************************)
(* perform_analysis.                                                       *)
(*   pc      "start", then per configuration "cfg_source",                 *)
(*           "cfg_obfuscate", "cfg_metrics", then per iteration            *)
(*           "obfuscate", "compile_O0", "compile_Ok", "run", "step",       *)
(*           then "chdir_back"; "returned" or "raised" once it is left.    *)
(*   ci      index of the configuration of the outer loop                  *)
(*   it      index of the iteration of the configuration: 1..warmup are    *)
(*           the warmup runs, warmup+1..warmup+runs the measured ones      *)
(***************************************************************************)
NoChild == <<>>
NoExe == [bytes |-> 0, level |-> 0, iteration |-> 0]
NoLast == [failed |-> "none", open |-> FALSE]
NoCall == [call |-> "none", args |-> <<>>, on |-> 0, cause |-> "none",
           result |-> Returns("none")]

Exited == {"returned", "raised"}
InIteration == {"obfuscate", "compile_O0", "compile_Ok", "run", "step"}

\* A file metrics.json is told by the tool invocation that wrote it (by,
\* 0 for no file), the fields of its first object, and its difficulty.
NoFile == [by |-> 0, fields |-> {}, difficulty |-> 0]
\* No file metrics.json in the working directory, no call of
\* halstead_difficulty in progress.
HdIdle ==
    /\ metrics_json = NoFile /\ hpc = [at |-> "idle", obf_path |-> ""]
    /\ functions = <<>>
    /\ difficulty = 0 /\ invocations = 0 /\ hd_calls = 0

\* No child at the other end of a pipe.
NoProgram == [todo |-> <<>>, state |-> "none"]
PipesIdle ==
    /\ stdout_pipe = 0 /\ stderr_pipe = 0
    /\ child = NoProgram /\ parent = "idle"

PaIdle ==
    /\ pc = "start" /\ ci = 0 /\ it = 0 /\ exc = NoExc
    /\ cwd = "old_cwd" /\ tmp_dir = "none"
    /\ p = NoChild /\ in_flight = 0
    /\ results = EmptyDict /\ ncd = <<0, 1>> /\ halstead_difficulty = 0
    /\ monitors = <<>> /\ obf_monitor = 0 /\ gcc1_monitor = 0
    /\ gcc2_monitor = 0 /\ prg_monitor = 0
    /\ a_out = NoExe /\ load = "none"
    /\ callbacks = 0 /\ iterations = 0 /\ spawned = {} /\ last = NoLast

Init ==
    /\ obf_configs \in ConfigLists
    /\ runs \in 0..MaxRuns
    /\ warmup \in -1..MaxWarmup
    /\ optimization_level \in -1..4
    /\ step_callback \in BOOLEAN
    /\ tigress_home \in BOOLEAN
    /\ source_readable \in BOOLEAN
    /\ PaIdle /\ HdIdle /\ PipesIdle
    /\ added = [i \in DOMAIN obf_configs |-> 0]
    /\ ret = NoCall /\ log = <<>>

\* run() without the wait for the child it has spawned.
wait4_not_reaping ==
    /\ p # NoChild
    /\ p' = NoChild
    /\ UNCHANGED in_flight

\* os.wait4(p.pid, 0) in run() returns: the child run() has spawned has
\* terminated and is reaped.
wait4 ==
    /\ p # NoChild
    /\ p' = NoChild
    /\ in_flight' = in_flight - 1

\* An exception leaves the `with` block: the scratch directory is removed
\* by the context manager and the exception propagates to the caller.
Leave(e) ==
    /\ pc' = "raised"
    /\ exc' = e
    /\ tmp_dir' = "removed"
    /\ UNCHANGED cwd

\* The validation of the arguments, then the scratch directory is created
\* and entered.
Enter ==
    /\ pc = "start"
    /\ IF \/ runs < 1
          \/ warmup < 0
          \/ optimization_level < 0 \/ optimization_level > 3
          \/ Len(obf_configs) < 1
       THEN /\ pc' = "raised"
            /\ exc' = Raise("ValueError")
            /\ UNCHANGED <<cwd, tmp_dir, ci>>
       ELSE /\ pc' = "cfg_source"
            /\ ci' = 1
            /\ tmp_dir' = "exists"
            /\ cwd' = "tmp_dir"
            /\ UNCHANGED exc
    /\ UNCHANGED <<hdVars, pipeVars, paInputs, os, it, paLocals, paHistory,
                   clients>>

\* __create_tigress_source_code for configuration ci.
CreateSource ==
    /\ pc = "cfg_source"
    /\ IF ~tigress_home THEN Leave(Raise("RuntimeError"))
       ELSE IF ~source_readable THEN Leave(Raise("OSError"))
       ELSE /\ pc' = "cfg_obfuscate"
            /\ UNCHANGED <<exc, cwd, tmp_dir>>
    /\ UNCHANGED <<hdVars, pipeVars, paInputs, os, ci, it, paLocals,
                   paHistory, clients>>

\* The positions at which a monitor's run() is called, and the command it
\* is called for.
CallSites == {"cfg_obfuscate", "obfuscate", "compile_O0", "compile_Ok", "run"}
CallAt(site) ==
    CASE site \in {"cfg_obfuscate", "obfuscate"} -> obf_call(obf_configs[ci])
      [] site = "compile_O0" -> gcc_call(0)
      [] site = "compile_Ok" -> gcc_call(optimization_level)
      [] site = "run" -> run_call

\* run(), subprocess.Popen(args): the child is spawned; run() then blocks
\* reading its output and waiting for it.
Popen ==
    /\ pc \in CallSites
    /\ p = NoChild
    /\ p' = TimeWrapper \o CallAt(pc)
    /\ in_flight' = in_flight + 1
    /\ UNCHANGED <<hdVars, pipeVars, paInputs, pc, ci, it, exc, cwd, tmp_dir,
                   paLocals, paHistory, clients>>

\* ObfuscateOnce catching the failure and going on with the next
\* configuration.
ObfuscateOnce_skipping ==
    /\ pc = "cfg_obfuscate"
    /\ wait4
    /\ \E ld \in Loads : \E proc \in Procs(obf_call(obf_configs[ci]), ld) :
         LET r == __obfuscate(obf_configs[ci], proc)
         IN  /\ spawned' = spawned \cup {SpawnArgs(r.m)}
             /\ IF r.exc # NoExc
                THEN /\ last' = [last EXCEPT !.failed = "cfg_obfuscate"]
                     /\ IF ci < Len(obf_configs)
                        THEN ci' = ci + 1 /\ pc' = "cfg_source"
                        ELSE pc' = "chdir_back" /\ UNCHANGED ci
                ELSE /\ pc' = "cfg_metrics"
                     /\ UNCHANGED <<ci, last>>
    /\ UNCHANGED <<hdVars, pipeVars, paInputs, it, exc, cwd, tmp_dir,
                   paLocals, callbacks, iterations, added, clients>>

\* The obfuscation done once per configuration, for the static metrics; its
\* monitor is dropped.
ObfuscateOnce ==
    /\ pc = "cfg_obfuscate"
    /\ wait4
    /\ \E ld \in Loads : \E proc \in Procs(obf_call(obf_configs[ci]), ld) :
         LET r == __obfuscate(obf_configs[ci], proc)
         IN  /\ spawned' = spawned \cup {SpawnArgs(r.m)}
             /\ IF r.exc # NoExc
                THEN /\ Leave(r.exc)
                     /\ last' = [last EXCEPT !.failed = "cfg_obfuscate"]
                ELSE /\ pc' = "cfg_metrics"
                     /\ UNCHANGED <<exc, cwd, tmp_dir, last>>
    /\ UNCHANGED <<hdVars, pipeVars, paInputs, ci, it, paLocals, callbacks,
                   iterations, added, clients>>

\* normalized_compression_distance and halstead_difficulty of the
\* configuration; the tools of halstead_difficulty may exit non-zero.  They
\* are called with subprocess.run, which spawns the tool and has reaped it
\* when it returns or raises.
StaticMetrics ==
    /\ pc = "cfg_metrics"
    /\ \E tool_status \in {0, 1} :
         IF tool_status # 0
         THEN /\ Leave(CalledProcessError(tool_status))
              /\ last' = [last EXCEPT !.failed = "cfg_metrics"]
              /\ UNCHANGED <<ncd, halstead_difficulty, it>>
         ELSE /\ ncd' = NcdOf(obf_configs[ci])
              /\ halstead_difficulty' = HalsteadOf(obf_configs[ci])
              /\ it' = 1
              /\ pc' = "obfuscate"
              /\ UNCHANGED <<exc, cwd, tmp_dir, last>>
    /\ UNCHANGED <<hdVars, pipeVars, paInputs, os, ci, results, monitors,
                   obf_monitor, gcc1_monitor, gcc2_monitor, prg_monitor,
                   a_out, load, callbacks, iterations, added, spawned,
                   clients>>


\* The file a.out after a compile: gcc writes it when it exits with 0 and
\* leaves the one that is there otherwise.
gcc_output(proc, old_exe, new_exe) ==
    IF WrapperExitCode(proc) = 0 THEN new_exe ELSE old_exe

\* The file a.out gcc writes: its size, the level it was built at and the
\* iteration that built it.
Built(obf_config, level, iteration) ==
    [bytes |-> AoutBytes(obf_config, level), level |-> level,
     iteration |-> iteration]

\* NextIteration going back to the obfuscation for the static metrics before
\* every iteration.
NextIteration_recomputing ==
    /\ monitors' = <<>>
    /\ obf_monitor' = 0 /\ gcc1_monitor' = 0
    /\ gcc2_monitor' = 0 /\ prg_monitor' = 0
    /\ load' = "none"
    /\ IF it < warmup + runs
       THEN /\ it' = it + 1 /\ pc' = "cfg_obfuscate" /\ UNCHANGED ci
       ELSE IF ci < Len(obf_configs)
       THEN /\ ci' = ci + 1 /\ it' = 0 /\ pc' = "cfg_source"
       ELSE /\ pc' = "chdir_back" /\ UNCHANGED <<ci, it>>

\* The end of an iteration: the references to its monitors are dead, the
\* loops go on with the next iteration, the next configuration, or end.
NextIteration ==
    /\ monitors' = <<>>
    /\ obf_monitor' = 0 /\ gcc1_monitor' = 0
    /\ gcc2_monitor' = 0 /\ prg_monitor' = 0
    /\ load' = "none"
    /\ IF it < warmup + runs
       THEN /\ it' = it + 1 /\ pc' = "obfuscate" /\ UNCHANGED ci
       ELSE IF ci < Len(obf_configs)
       THEN /\ ci' = ci + 1 /\ it' = 0 /\ pc' = "cfg_source"
       ELSE /\ pc' = "chdir_back" /\ UNCHANGED <<ci, it>>

\* __obfuscate_compile_run, first call: the obfuscator.  The host load of
\* the iteration is the environment's choice.
Obfuscate ==
    /\ pc = "obfuscate"
    /\ wait4
    /\ \E ld \in Loads : \E proc \in Procs(obf_call(obf_configs[ci]), ld) :
         LET r == __obfuscate(obf_configs[ci], proc)
         IN  /\ load' = ld
             /\ monitors' = Append(monitors, r.m)
             /\ obf_monitor' = Len(monitors) + 1
             /\ spawned' = spawned \cup {SpawnArgs(r.m)}
             /\ iterations' = iterations + 1
             /\ IF r.exc # NoExc
                THEN /\ Leave(r.exc)
                     /\ last' = [failed |-> "obfuscate", open |-> TRUE]
                ELSE /\ pc' = "compile_O0"
                     /\ last' = [last EXCEPT !.open = TRUE]
                     /\ UNCHANGED <<exc, cwd, tmp_dir>>
    /\ UNCHANGED <<hdVars, pipeVars, paInputs, ci, it, results, ncd,
                   halstead_difficulty, gcc1_monitor, gcc2_monitor,
                   prg_monitor, a_out, callbacks, added, clients>>

\* __obfuscate_compile_run, the compile without optimizations; at level 0
\* the same monitor stands for the optimized compile.
CompileO0 ==
    /\ pc = "compile_O0"
    /\ wait4
    /\ \E proc \in Procs(gcc_call(0), load) :
         LET r == __compile(0, proc)
         IN  /\ monitors' = Append(monitors, r.m)
             /\ gcc1_monitor' = Len(monitors) + 1
             /\ spawned' = spawned \cup {SpawnArgs(r.m)}
             /\ IF r.exc # NoExc
                THEN /\ Leave(r.exc)
                     /\ last' = [last EXCEPT !.failed = "compile_O0"]
                     /\ UNCHANGED <<gcc2_monitor, a_out>>
                ELSE /\ a_out' = gcc_output(proc, a_out,
                                     Built(obf_configs[ci], 0, iterations))
                     /\ IF optimization_level > 0
                        THEN /\ pc' = "compile_Ok"
                             /\ UNCHANGED gcc2_monitor
                        ELSE /\ pc' = "run"
                             /\ gcc2_monitor' = Len(monitors) + 1
                     /\ UNCHANGED <<exc, cwd, tmp_dir, last>>
    /\ UNCHANGED <<hdVars, pipeVars, paInputs, ci, it, results, ncd,
                   halstead_difficulty, obf_monitor, prg_monitor, load,
                   callbacks, iterations, added, clients>>

\* CompileOk calling run() again on the monitor of the -O0 compile.
CompileOk_rerunning_gcc1 ==
    /\ pc = "compile_Ok"
    /\ wait4
    /\ \E proc \in Procs(gcc_call(optimization_level), load) :
         LET r == run(monitors[gcc1_monitor], proc)
         IN  /\ monitors' = [monitors EXCEPT ![gcc1_monitor] = r.m]
             /\ gcc2_monitor' = gcc1_monitor
             /\ spawned' = spawned \cup {SpawnArgs(r.m)}
             /\ IF r.exc # NoExc
                THEN /\ Leave(r.exc)
                     /\ last' = [last EXCEPT !.failed = "compile_Ok"]
                     /\ UNCHANGED a_out
                ELSE /\ a_out' = gcc_output(proc, a_out,
                                     Built(obf_configs[ci],
                                           optimization_level, iterations))
                     /\ pc' = "run"
                     /\ UNCHANGED <<exc, cwd, tmp_dir, last>>
    /\ UNCHANGED <<hdVars, pipeVars, paInputs, ci, it, results, ncd,
                   halstead_difficulty, obf_monitor, gcc1_monitor,
                   prg_monitor, load, callbacks, iterations, added, clients>>

\* __obfuscate_compile_run, the compile at the requested level.
CompileOk ==
    /\ pc = "compile_Ok"
    /\ wait4
    /\ \E proc \in Procs(gcc_call(optimization_level), load) :
         LET r == __compile(optimization_level, proc)
         IN  /\ monitors' = Append(monitors, r.m)
             /\ gcc2_monitor' = Len(monitors) + 1
             /\ spawned' = spawned \cup {SpawnArgs(r.m)}
             /\ IF r.exc # NoExc
                THEN /\ Leave(r.exc)
                     /\ last' = [last EXCEPT !.failed = "compile_Ok"]
                     /\ UNCHANGED a_out
                ELSE /\ a_out' = gcc_output(proc, a_out,
                                     Built(obf_configs[ci],
                                           optimization_level, iterations))
                     /\ pc' = "run"
                     /\ UNCHANGED <<exc, cwd, tmp_dir, last>>
    /\ UNCHANGED <<hdVars, pipeVars, paInputs, ci, it, results, ncd,
                   halstead_difficulty, obf_monitor, gcc1_monitor,
                   prg_monitor, load, callbacks, iterations, added, clients>>

\* Run catching the failure of the executable and skipping the iteration.
Run_isolating ==
    /\ pc = "run"
    /\ wait4
    /\ \E proc \in Procs(run_call, load) :
         LET r == __run(proc)
         IN  /\ spawned' = spawned \cup {SpawnArgs(r.m)}
             /\ IF r.exc # NoExc
                THEN /\ last' = [last EXCEPT !.failed = "run"]
                     /\ NextIteration
                ELSE /\ monitors' = Append(monitors, r.m)
                     /\ prg_monitor' = Len(monitors) + 1
                     /\ pc' = "step"
                     /\ UNCHANGED <<ci, it, obf_monitor, gcc1_monitor,
                                    gcc2_monitor, load, last>>
    /\ UNCHANGED <<hdVars, pipeVars, paInputs, exc, cwd, tmp_dir, results,
                   ncd, halstead_difficulty, a_out, callbacks, iterations,
                   added, clients>>

\* __obfuscate_compile_run, last call: the executable.
Run ==
    /\ pc = "run"
    /\ wait4
    /\ \E proc \in Procs(run_call, load) :
         LET r == __run(proc)
         IN  /\ monitors' = Append(monitors, r.m)
             /\ prg_monitor' = Len(monitors) + 1
             /\ spawned' = spawned \cup {SpawnArgs(r.m)}
             /\ IF r.exc # NoExc
                THEN /\ Leave(r.exc)
                     /\ last' = [last EXCEPT !.failed = "run"]
                ELSE /\ pc' = "step"
                     /\ UNCHANGED <<exc, cwd, tmp_dir, last>>
    /\ UNCHANGED <<hdVars, pipeVars, paInputs, ci, it, results, ncd,
                   halstead_difficulty, obf_monitor, gcc1_monitor,
                   gcc2_monitor, a_out, load, callbacks, iterations, added,
                   clients>>

\* WarmupStep adding a Result as a measured iteration does.
WarmupStep_recording ==
    /\ pc = "step"
    /\ it <= warmup
    /\ results' = add_result(results,
                      BuildResult(obf_configs[ci], monitors[obf_monitor],
                                  monitors[gcc1_monitor],
                                  monitors[gcc2_monitor],
                                  monitors[prg_monitor], a_out, ncd,
                                  halstead_difficulty))
    /\ added' = [added EXCEPT ![ci] = @ + 1]
    /\ callbacks' = IF step_callback THEN callbacks + 1 ELSE callbacks
    /\ last' = [last EXCEPT !.open = FALSE]
    /\ NextIteration
    /\ UNCHANGED <<hdVars, pipeVars, paInputs, os, exc, cwd, tmp_dir, ncd,
                   halstead_difficulty, a_out, iterations, spawned, clients>>

\* The rest of the body of the warmup loop: the callback.
WarmupStep ==
    /\ pc = "step"
    /\ it <= warmup
    /\ callbacks' = IF step_callback THEN callbacks + 1 ELSE callbacks
    /\ last' = [last EXCEPT !.open = FALSE]
    /\ NextIteration
    /\ UNCHANGED <<hdVars, pipeVars, paInputs, os, exc, cwd, tmp_dir, results,
                   ncd, halstead_difficulty, a_out, iterations, added,
                   spawned, clients>>

\* Record without the call of the callback.
Record_without_callback ==
    /\ pc = "step"
    /\ it > warmup
    /\ results' = add_result(results,
                      BuildResult(obf_configs[ci], monitors[obf_monitor],
                                  monitors[gcc1_monitor],
                                  monitors[gcc2_monitor],
                                  monitors[prg_monitor], a_out, ncd,
                                  halstead_difficulty))
    /\ added' = [added EXCEPT ![ci] = @ + 1]
    /\ last' = [last EXCEPT !.open = FALSE]
    /\ NextIteration
    /\ UNCHANGED <<hdVars, pipeVars, paInputs, os, exc, cwd, tmp_dir, ncd,
                   halstead_difficulty, a_out, callbacks, iterations, spawned,
                   clients>>

\* The rest of the body of the measured loop: the Result is built and
\* added, then the callback.
Record ==
    /\ pc = "step"
    /\ it > warmup
    /\ results' = add_result(results,
                      BuildResult(obf_configs[ci], monitors[obf_monitor],
                                  monitors[gcc1_monitor],
                                  monitors[gcc2_monitor],
                                  monitors[prg_monitor], a_out, ncd,
                                  halstead_difficulty))
    /\ added' = [added EXCEPT ![ci] = @ + 1]
    /\ callbacks' = IF step_callback THEN callbacks + 1 ELSE callbacks
    /\ last' = [last EXCEPT !.open = FALSE]
    /\ NextIteration
    /\ UNCHANGED <<hdVars, pipeVars, paInputs, os, exc, cwd, tmp_dir, ncd,
                   halstead_difficulty, a_out, iterations, spawned, clients>>

\* After the loops: back to the saved working directory, the `with` block
\* ends and removes the scratch directory, the store is returned.
Return ==
    /\ pc = "chdir_back"
    /\ cwd' = "old_cwd"
    /\ tmp_dir' = "removed"
    /\ pc' = "returned"
    /\ UNCHANGED <<hdVars, pipeVars, paInputs, os, ci, it, exc, paLocals,
                   paHistory, clients>>

\* SIGINT while perform_analysis is inside the `with` block: the handler
\* installed by main calls sys.exit(0), SystemExit propagates from the
\* statement being executed; a child run() is waiting for is left alone.
Interrupt ==
    /\ pc \notin {"start"} \cup Exited
    /\ Leave(Raise("SystemExit"))
    /\ UNCHANGED <<hdVars, pipeVars, paInputs, os, ci, it, paLocals,
                   paHistory, clients>>

\* class ExitCode of the command line interface.
NO_ERROR == 0
SOURCE_CODE_NOT_FOUND == 1
OBF_CONFIGS_NOT_FOUND == 2
INVALID_CLI_PARAM == 3
RUNTIME_ERROR == 4

\* The exit status of the interpreter when an exception no handler catches
\* ends the program (it prints the traceback).
UncaughtExitCode == 1

\* What perform_analysis failed of, told from the exception it raised.
FailureCategory(e) ==
    CASE e.type = "RuntimeError" -> "missing_tigress_home"
      [] e.type = "OSError" -> "unreadable_source"
      [] e.type = "CalledProcessError"
           /\ e.returncode = WaitStatus(WrapperNotFoundCode)
           -> "missing_executable"
      [] e.type = "CalledProcessError" -> "tool_failed"
      [] OTHER -> "none"

\* The try statement of main around perform_analysis and what follows it:
\* the exit status of the program for the way perform_analysis ended.
main_exit_code(e) ==
    CASE e.type = "None" -> NO_ERROR
      [] e.type = "OSError" -> SOURCE_CODE_NOT_FOUND
      [] e.type = "CalledProcessError" -> RUNTIME_ERROR
      [] e.type = "SystemExit" -> 0
      [] OTHER -> UncaughtExitCode

\* main after perform_analysis returned or raised: the program exits.
main ==
    /\ pc \in Exited
    /\ ret.call = NoCall.call
    /\ ret' = [call |-> "main", args |-> <<>>, on |-> 0,
               cause |-> FailureCategory(exc),
               result |-> Returns(main_exit_code(exc))]
    /\ UNCHANGED <<hdVars, pipeVars, paInputs, os, pc, ci, it, exc, cwd,
                   tmp_dir, paLocals, paHistory, log>>

Next ==
    \/ Enter \/ CreateSource \/ Popen \/ ObfuscateOnce \/ StaticMetrics
    \/ Obfuscate \/ CompileO0 \/ CompileOk \/ Run
    \/ WarmupStep \/ Record \/ Return \/ Interrupt \/ main

Spec == Init /\ [][Next]_vars


(***************************************************************************)
(* A client of class ResourceMonitor: it constructs monitors from any      *)
(* argument vector and calls run() and the getters in any order.  ret is   *)
(* the last call: the method, the monitor, what the operating system did   *)
(* with the command (for run: in args the exit code of the child, what    *)
(* the command wrote on stderr and the peak memory the wrapper reports)    *)
(* and the value returned or the error raised.                             *)
(***************************************************************************)
ArgVectors == UNION {[1..n -> {"prog"}] : n \in 0..MaxArgs}

\* What the client's command may write on its stderr: nothing, a line, or
\* characters with no newline after them.
ClientErrs == {<<>>, <<Txt(3), NL>>, <<Txt(3)>>}

\* What may happen to the client's command: found or not, the exit code
\* (127 is also what the wrapper exits with when it finds nothing).
ClientProcs ==
    {[found |-> f, code |-> c, usage |-> Usage("./a.out", ld),
      out |-> <<Txt(4), NL>>, err |-> e] :
        f \in BOOLEAN, c \in {0, 1, WrapperNotFoundCode}, ld \in Loads,
        e \in ClientErrs}

Cause(proc) ==
    IF ~proc.found THEN "not_found"
    ELSE IF proc.code # 0 THEN "nonzero" ELSE "exit0"

InitRM ==
    /\ obf_configs = <<>> /\ runs = 1 /\ warmup = 0
    /\ optimization_level = 0 /\ step_callback = FALSE
    /\ tigress_home = TRUE /\ source_readable = TRUE
    /\ PaIdle /\ HdIdle /\ PipesIdle
    /\ added = <<>>
    /\ ret = NoCall /\ log = <<>>

\* monitor = ResourceMonitor(args, check): the client holds one monitor at a
\* time, a new one takes the place of the one it held.
New ==
    /\ \E args \in ArgVectors, check \in BOOLEAN :
         IF InitRejects(args)
         THEN /\ ret' = [call |-> "__init__", args |-> args, on |-> 0,
                         cause |-> "none",
                         result |-> Raised(Raise("ValueError"))]
              /\ UNCHANGED monitors
         ELSE /\ monitors' = <<ResourceMonitor(args, check)>>
              /\ ret' = [call |-> "__init__", args |-> args, on |-> 1,
                         cause |-> "none", result |-> Returns("none")]
    /\ UNCHANGED <<hdVars, pipeVars, paInputs, os, pc, ci, it, exc, cwd,
                   tmp_dir, results, ncd, halstead_difficulty, obf_monitor,
                   gcc1_monitor, gcc2_monitor, prg_monitor, a_out, load,
                   paHistory, log>>

\* monitors[i].run()
RunCall ==
    /\ \E i \in DOMAIN monitors : \E proc \in ClientProcs :
         LET r == run(monitors[i], proc)
         IN  /\ monitors[i].started < MaxRunCalls
             /\ monitors' = [monitors EXCEPT ![i] = r.m]
             /\ spawned' = spawned \cup {SpawnArgs(monitors[i])}
             /\ ret' = [call |-> "run",
                        args |-> <<WrapperExitCode(proc), proc.err,
                                   proc.usage.maxmem>>,
                        on |-> i,
                        cause |-> Cause(proc),
                        result |-> IF r.exc = NoExc THEN Returns(r.value)
                                   ELSE Raised(r.exc)]
    /\ UNCHANGED <<hdVars, pipeVars, paInputs, os, pc, ci, it, exc, cwd,
                   tmp_dir, results, ncd, halstead_difficulty, obf_monitor,
                   gcc1_monitor, gcc2_monitor, prg_monitor, a_out, load,
                   callbacks, iterations, added, last, log>>

\* monitors[i].<getter>()
GetCall ==
    /\ \E i \in DOMAIN monitors : \E g \in Getters :
         ret' = [call |-> g, args |-> <<>>, on |-> i, cause |-> "none",
                 result |-> Get(g, monitors[i])]
    /\ UNCHANGED <<hdVars, pipeVars, paInputs, os, pc, ci, it, exc, cwd,
                   tmp_dir, paLocals, paHistory, log>>

NextRM == New \/ RunCall \/ GetCall

SpecRM == InitRM /\ [][NextRM]_vars


(***************************************************************************)
(* A client of class ResultContainer: it adds Results and calls            *)
(* metric_results and get_average_results in any order.  The store of the  *)
(* container is `results`, log the Results added so far.                   *)
(***************************************************************************)
MaxAdds == 3

ClientNames == {"a", "b"}
ClientBases == {0, 1}

\* A Result of the client: field number i holds base + i.
ClientResult(name, base) ==
    [f \in Range(Fields) |->
        IF f = "name" THEN name
        ELSE base + (CHOOSE i \in DOMAIN Fields : Fields[i] = f)]
ClientResults ==
    {ClientResult(name, base) : name \in ClientNames, base \in ClientBases}

\* The names a client may ask metric_results for: the fields of Result and
\* two that are none.
MetricNames == Range(Fields) \cup {"", "wall_time"}

InitRC ==
    /\ obf_configs = <<>> /\ runs = 1 /\ warmup = 0
    /\ optimization_level = 0 /\ step_callback = FALSE
    /\ tigress_home = TRUE /\ source_readable = TRUE
    /\ PaIdle /\ HdIdle /\ PipesIdle
    /\ added = <<>>
    /\ ret = NoCall /\ log = <<>>

\* results.add_result(result)
AddResultCall ==
    /\ Len(log) < MaxAdds
    /\ \E result \in ClientResults :
         /\ results' = add_result(results, result)
         /\ log' = Append(log, result)
         /\ ret' = [call |-> "add_result", args |-> <<result>>, on |-> 0,
                    cause |-> "none", result |-> Returns("none")]
    /\ UNCHANGED <<hdVars, pipeVars, paInputs, os, pc, ci, it, exc, cwd,
                   tmp_dir, ncd, halstead_difficulty, monitors, obf_monitor,
                   gcc1_monitor, gcc2_monitor, prg_monitor, a_out, load,
                   paHistory>>

\* results.metric_results(metric_name)
MetricResultsCall ==
    /\ \E metric_name \in MetricNames :
         ret' = [call |-> "metric_results", args |-> <<metric_name>>,
                 on |-> 0, cause |-> "none",
                 result |-> metric_results(results, metric_name)]
    /\ UNCHANGED <<hdVars, pipeVars, paInputs, os, pc, ci, it, exc, cwd,
                   tmp_dir, paLocals, paHistory, log>>

\* results.get_average_results()
GetAverageResultsCall ==
    /\ ret' = [call |-> "get_average_results", args |-> <<>>, on |-> 0,
               cause |-> "none", result |-> get_average_results(results)]
    /\ UNCHANGED <<hdVars, pipeVars, paInputs, os, pc, ci, it, exc, cwd,
                   tmp_dir, paLocals, paHistory, log>>

NextRC == AddResultCall \/ MetricResultsCall \/ GetAverageResultsCall

SpecRC == InitRC /\ [][NextRC]_vars


(***************************************************************************)
(* A caller of the functions of the modules: metrics.                      *)
(* normalized_compression_distance.  The compressor is the environment:    *)
(* it yields the sizes of the three compressed strings, each at least 1    *)
(* (the output of bz2.compress is never empty), the sizes of the two       *)
(* files being one size when the two files are one file.                   *)
(***************************************************************************)
MaxCompressed == 5

Min(a, b) == IF a <= b THEN a ELSE b

\* normalized_compression_distance after the three calls of bz2.compress:
\* the quotient <<p, q>>, clipped to [0, 1].
normalized_compression_distance(combined_size, orig_size, obf_size) ==
    LET num == combined_size - Min(orig_size, obf_size)
        den == Max(orig_size, obf_size)
    IN  IF den = 0 THEN Raised(Raise("ZeroDivisionError"))
        ELSE IF num < 0 THEN Returns(<<0, 1>>)
        ELSE IF num > den THEN Returns(<<1, 1>>)
        ELSE Returns(<<num, den>>)

InitFn ==
    /\ obf_configs = <<>> /\ runs = 1 /\ warmup = 0
    /\ optimization_level = 0 /\ step_callback = FALSE
    /\ tigress_home = TRUE /\ source_readable = TRUE
    /\ PaIdle /\ HdIdle /\ PipesIdle
    /\ added = <<>>
    /\ ret = NoCall /\ log = <<>>

\* metrics.normalized_compression_distance(orig_path, obf_path)
NcdCall ==
    /\ \E same_file \in BOOLEAN :
       \E orig \in 1..MaxCompressed, obf \in 1..MaxCompressed :
       \E combined \in 1..(2 * MaxCompressed + 1) :
         /\ same_file => orig = obf
         /\ ret' = [call |-> "normalized_compression_distance",
                    args |-> <<combined, orig, obf>>, on |-> 0,
                    cause |-> IF same_file THEN "same_file"
                              ELSE "two_files",
                    result |-> normalized_compression_distance(
                                   combined, orig, obf)]
    /\ UNCHANGED <<hdVars, pipeVars, paInputs, os, pc, ci, it, exc, cwd,
                   tmp_dir, paLocals, paHistory, log>>

(***************************************************************************)
(* obf_perf_core.load_obfuscation_configs.  A configuration file is a text *)
(* of words, blanks and newlines; a path that is not a file of the file    *)
(* system cannot be opened.                                                *)
(***************************************************************************)
MaxPaths == 2

ConfigFileText(obf_config) ==
    <<obf_config.params[1], " ", obf_config.params[2], "\n",
      obf_config.params[3], "\n">>

\* The configuration files on disk: two of them share their file name, one
\* is named like the identity configuration.
ConfigFiles ==
    (FlattenConfig.path :> ConfigFileText(FlattenConfig))
    @@ (Path("other", "flatten", ".txt") :> ConfigFileText(FlattenConfig))
    @@ (Path("configs", "00-normal", ".txt")
          :> ConfigFileText(__NORMAL_CONFIG))

AbsentConfigPath == Path("configs", "absent", ".txt")

ConfigPaths == DOMAIN ConfigFiles \cup {AbsentConfigPath}

PathLists == UNION {[1..n -> ConfigPaths] : n \in 0..MaxPaths}

\* shlex.split: the words of the text, the white space between them dropped.
shlex_split(config_content) ==
    SelectSeq(config_content, LAMBDA w : w \notin {" ", "\n"})

\* The loader putting the identity configuration after the loaded ones.
RECURSIVE LoadFrom_identity_last(_, _)
LoadFrom_identity_last(loaded_configs, obf_config_path_list) ==
    IF obf_config_path_list = <<>>
    THEN Returns(Tail(loaded_configs) \o <<Head(loaded_configs)>>)
    ELSE LET obf_config_path == Head(obf_config_path_list)
         IN  IF obf_config_path \notin DOMAIN ConfigFiles
             THEN Raised(Raise("OSError"))
             ELSE LoadFrom_identity_last(
                      Append(loaded_configs,
                             [path |-> obf_config_path,
                              params |-> shlex_split(
                                             ConfigFiles[obf_config_path])]),
                      Tail(obf_config_path_list))

\* The loop of load_obfuscation_configs over the paths still to load.
RECURSIVE LoadFrom(_, _)
LoadFrom(loaded_configs, obf_config_path_list) ==
    IF obf_config_path_list = <<>> THEN Returns(loaded_configs)
    ELSE LET obf_config_path == Head(obf_config_path_list)
             params == shlex_split(ConfigFiles[obf_config_path])
         IN  IF obf_config_path \notin DOMAIN ConfigFiles
             THEN Raised(Raise("OSError"))
             ELSE LoadFrom(
                      Append(loaded_configs,
                             [path |-> obf_config_path,
                              params |-> SelectSeq(params,
                                             LAMBDA x : x # "\n")]),
                      Tail(obf_config_path_list))

load_obfuscation_configs(obf_config_path_list) ==
    LoadFrom(<<__NORMAL_CONFIG>>, obf_config_path_list)

\* obf_perf_core.load_obfuscation_configs(obf_config_path_list)
LoadCall ==
    /\ \E obf_config_path_list \in PathLists :
         ret' = [call |-> "load_obfuscation_configs",
                 args |-> obf_config_path_list, on |-> 0,
                 cause |-> IF Range(obf_config_path_list)
                                \subseteq DOMAIN ConfigFiles
                           THEN "readable" ELSE "unreadable",
                 result |-> load_obfuscation_configs(obf_config_path_list)]
    /\ UNCHANGED <<hdVars, pipeVars, paInputs, os, pc, ci, it, exc, cwd,
                   tmp_dir, paLocals, paHistory, log>>

NextFn == NcdCall \/ LoadCall

SpecFn == InitFn /\ [][NextFn]_vars


(***************************************************************************)
(* metrics.halstead_difficulty, called once per configuration in one       *)
(* working directory (the scratch directory of perform_analysis).  ctags   *)
(* and the tool are run with subprocess.run(check=True); the tool is asked *)
(* to write metrics.json, which is then opened and parsed.  A step is the  *)
(* call up to the loop, one turn of the loop, or the return.               *)
(***************************************************************************)
MaxFunctions == 2
MaxHdCalls == 2

FunctionNames == {"main", "f"}
\* ctags -x --c-kinds=f: one line per function, the name its first word.
FunctionLists ==
    {l \in UNION {[1..n -> FunctionNames] : n \in 0..MaxFunctions} :
        Injective(l)}

\* The obfuscated files of two configurations (obf_file).
ObfPaths == {"source-00-normal.c", "source-flatten.c"}

\* The difficulty the tool reports for a function of an obfuscated file.
FunctionDifficulty(obf_path, function) ==
    (IF function = "main" THEN 7 ELSE 5)
    + (IF obf_path = "source-flatten.c" THEN 20 ELSE 0)

\* What an invocation of the tool may do: exit non-zero; exit zero having
\* written metrics.json, with or without the field difficulty in its first
\* object; exit zero having written no file.
TigressOutcomes == {"failed", "wrote", "wrote_no_field", "wrote_nothing"}

\* The file metrics.json after invocation number id.
Written(outcome, id, obf_path, function, old_file) ==
    CASE outcome = "wrote" ->
           [by |-> id, fields |-> {"difficulty"},
            difficulty |-> FunctionDifficulty(obf_path, function)]
      [] outcome = "wrote_no_field" ->
           [by |-> id, fields |-> {"other"}, difficulty |-> 0]
      [] OTHER -> old_file

InitHD ==
    /\ obf_configs = <<>> /\ runs = 1 /\ warmup = 0
    /\ optimization_level = 0 /\ step_callback = FALSE
    /\ tigress_home = TRUE /\ source_readable = TRUE
    /\ PaIdle /\ HdIdle /\ PipesIdle
    /\ added = <<>>
    /\ ret = NoCall /\ log = <<>>

\* halstead_difficulty(orig_path, obf_path) up to the loop: ctags.
HdCall ==
    /\ hpc.at = "idle"
    /\ hd_calls < MaxHdCalls
    /\ hd_calls' = hd_calls + 1
    /\ \E obf_path \in ObfPaths, returncode \in {0, 1},
          names \in FunctionLists :
         IF returncode # 0
         THEN /\ ret' = [call |-> "halstead_difficulty",
                         args |-> <<obf_path>>, on |-> 0,
                         cause |-> "ctags_failed",
                         result |-> Raised(CalledProcessError(returncode))]
              /\ UNCHANGED <<hpc, functions, difficulty>>
         ELSE /\ functions' = names
              /\ difficulty' = 0
              /\ hpc' = [at |-> "loop", obf_path |-> obf_path]
              /\ ret' = [call |-> "halstead_difficulty",
                         args |-> <<obf_path>>, on |-> 0,
                         cause |-> "ctags", result |-> Returns("none")]
    /\ UNCHANGED <<metrics_json, invocations>>
    /\ UNCHANGED <<pipeVars, paInputs, os, pc, ci, it, exc, cwd, tmp_dir,
                   paLocals, paHistory, log>>

\* One turn of the loop: the tool for a function, then metrics.json read.
\* args of ret: the function, the number of this invocation, and the
\* invocation that wrote the file that was read.
HdFunction ==
    /\ hpc.at = "loop"
    /\ functions # <<>>
    /\ invocations' = invocations + 1
    /\ \E outcome \in TigressOutcomes :
         LET function == Head(functions)
             file == Written(outcome, invocations + 1, hpc.obf_path,
                             function, metrics_json)
             raised(e) ==
                 /\ ret' = [call |-> "halstead_difficulty",
                            args |-> <<function, invocations + 1, file.by>>,
                            on |-> 0, cause |-> outcome,
                            result |-> Raised(e)]
                 /\ hpc' = [at |-> "idle", obf_path |-> ""]
                 /\ functions' = <<>>
                 /\ UNCHANGED difficulty
         IN  /\ metrics_json' = file
             /\ IF outcome = "failed" THEN raised(CalledProcessError(1))
                ELSE IF file.by = 0 THEN raised(Raise("OSError"))
                ELSE IF "difficulty" \notin file.fields
                THEN raised(Raise("KeyError"))
                ELSE /\ difficulty' = difficulty + file.difficulty
                     /\ functions' = Tail(functions)
                     /\ ret' = [call |-> "halstead_difficulty",
                                args |-> <<function, invocations + 1,
                                           file.by>>,
                                on |-> 0, cause |-> outcome,
                                result |-> Returns(difficulty
                                                   + file.difficulty)]
                     /\ UNCHANGED hpc
    /\ UNCHANGED hd_calls
    /\ UNCHANGED <<pipeVars, paInputs, os, pc, ci, it, exc, cwd, tmp_dir,
                   paLocals, paHistory, log>>

\* return difficulty
HdReturn ==
    /\ hpc.at = "loop"
    /\ functions = <<>>
    /\ hpc' = [at |-> "idle", obf_path |-> ""]
    /\ ret' = [call |-> "halstead_difficulty", args |-> <<hpc.obf_path>>,
               on |-> 0, cause |-> "returned",
               result |-> Returns(difficulty)]
    /\ UNCHANGED <<metrics_json, functions, difficulty, invocations,
                   hd_calls>>
    /\ UNCHANGED <<pipeVars, paInputs, os, pc, ci, it, exc, cwd, tmp_dir,
                   paLocals, paHistory, log>>

NextHD == HdCall \/ HdFunction \/ HdReturn

SpecHD == InitHD /\ [][NextHD]_vars


(***************************************************************************)
(* ResourceMonitor.run at the level of the two pipes.  Popen gives the     *)
(* child (the wrapper and the command it runs) the write ends of a pipe    *)
(* for stdout and of one for stderr; a pipe holds PipeCapacity chunks and  *)
(* a write to a full pipe blocks.  The command writes its chunks in the    *)
(* order of its program, the wrapper then prints its report on stderr and  *)
(* exits, which closes the write ends.  The parent reads stdout to the end *)
(* of file, then stderr to the end of file, then waits for the child.      *)
(***************************************************************************)
PipeCapacity == 2
MaxWrites == 4

Programs == UNION {[1..n -> {"stdout", "stderr"}] : n \in 0..MaxWrites}

InitPipe ==
    /\ obf_configs = <<>> /\ runs = 1 /\ warmup = 0
    /\ optimization_level = 0 /\ step_callback = FALSE
    /\ tigress_home = TRUE /\ source_readable = TRUE
    /\ PaIdle /\ HdIdle /\ PipesIdle
    /\ added = <<>>
    /\ ret = NoCall /\ log = <<>>

PipeFrame ==
    UNCHANGED <<hdVars, paInputs, os, pc, ci, it, exc, cwd, tmp_dir,
                paLocals, paHistory, clients>>

\* p = subprocess.Popen(args, stdout=PIPE, stderr=PIPE)
PipePopen ==
    /\ parent = "idle"
    /\ \E program \in Programs :
         child' = [todo |-> program, state |-> "running"]
    /\ parent' = "read_stdout"
    /\ UNCHANGED <<stdout_pipe, stderr_pipe>>
    /\ PipeFrame

\* The command writes its next chunk, if the pipe has room for it.
ChildWrite ==
    /\ child.state = "running" /\ child.todo # <<>>
    /\ IF Head(child.todo) = "stdout"
       THEN /\ stdout_pipe < PipeCapacity
            /\ stdout_pipe' = stdout_pipe + 1
            /\ UNCHANGED stderr_pipe
       ELSE /\ stderr_pipe < PipeCapacity
            /\ stderr_pipe' = stderr_pipe + 1
            /\ UNCHANGED stdout_pipe
    /\ child' = [child EXCEPT !.todo = Tail(@)]
    /\ UNCHANGED parent
    /\ PipeFrame

\* The command has written everything and exits; the wrapper is left.
CommandExit ==
    /\ child.state = "running" /\ child.todo = <<>>
    /\ child' = [child EXCEPT !.state = "reporting"]
    /\ UNCHANGED <<stdout_pipe, stderr_pipe, parent>>
    /\ PipeFrame

\* The wrapper prints "\n%M" on stderr, if the pipe has room, and exits.
WrapperReport ==
    /\ child.state = "reporting"
    /\ stderr_pipe < PipeCapacity
    /\ stderr_pipe' = stderr_pipe + 1
    /\ child' = [child EXCEPT !.state = "exited"]
    /\ UNCHANGED <<stdout_pipe, parent>>
    /\ PipeFrame

\* stdout_data = p.stdout.read(): takes what the pipe holds; returns at the
\* end of file, when the pipe is empty and its write ends are closed.
ReadStdout ==
    /\ parent = "read_stdout"
    /\ IF stdout_pipe > 0
       THEN /\ stdout_pipe' = 0
            /\ UNCHANGED parent
       ELSE /\ child.state = "exited"
            /\ parent' = "read_stderr"
            /\ UNCHANGED stdout_pipe
    /\ UNCHANGED <<stderr_pipe, child>>
    /\ PipeFrame

\* stderr_data = p.stderr.read()
ReadStderr ==
    /\ parent = "read_stderr"
    /\ IF stderr_pipe > 0
       THEN /\ stderr_pipe' = 0
            /\ UNCHANGED parent
       ELSE /\ child.state = "exited"
            /\ parent' = "wait4"
            /\ UNCHANGED stderr_pipe
    /\ UNCHANGED <<stdout_pipe, child>>
    /\ PipeFrame

\* os.wait4(p.pid, 0): the child is reaped and run() goes on to return.
PipeWait4 ==
    /\ parent = "wait4"
    /\ child.state = "exited"
    /\ child' = [child EXCEPT !.state = "reaped"]
    /\ parent' = "returned"
    /\ UNCHANGED <<stdout_pipe, stderr_pipe>>
    /\ PipeFrame

NextPipe ==
    \/ PipePopen \/ ChildWrite \/ CommandExit \/ WrapperReport
    \/ ReadStdout \/ ReadStderr \/ PipeWait4

SpecPipe == InitPipe /\ [][NextPipe]_vars


(***************************************************************************)
(* perform_analysis as main calls it: the configurations are the ones      *)
(* load_obfuscation_configs returns for the paths of the command line      *)
(* (pairwise different files, validate_args has checked that they exist),  *)
(* runs is at least 1, warmup at least 0, the level one argparse accepts,  *)
(* and the callback advances the progress bar.                             *)
(***************************************************************************)
\* Two of the levels --optimization-level accepts.
CliLevels == {0, 1}

InitMain ==
    /\ \E obf_config_path_list \in PathLists :
         /\ Injective(obf_config_path_list)
         /\ load_obfuscation_configs(obf_config_path_list).ok
         /\ obf_configs = load_obfuscation_configs(obf_config_path_list).val
    /\ runs \in 1..MaxRuns
    /\ warmup \in 0..MaxWarmup
    /\ optimization_level \in CliLevels
    /\ step_callback = TRUE
    /\ tigress_home \in BOOLEAN
    /\ source_readable = TRUE
    /\ PaIdle /\ HdIdle /\ PipesIdle
    /\ added = [i \in DOMAIN obf_configs |-> 0]
    /\ ret = NoCall /\ log = <<>>

SpecMain == InitMain /\ [][Next]_vars


(***************************************************************************)
(* Properties.                                                             *)
(***************************************************************************)
IterationStages == {"obfuscate", "compile_O0", "compile_Ok", "run"}

\* The number of samples the store holds under a name.
Samples(name) ==
    IF name \in DOMAIN results
    THEN Len(results[name]["execution_wall_time"]) ELSE 0

C2_Case ==
    /\ pc \in Exited
    /\ \E i \in DOMAIN obf_configs : ~WellFormed(obf_configs[i])
    /\ \E i \in DOMAIN obf_configs : WellFormed(obf_configs[i])
    /\ pc = "raised" =>
         /\ last.failed = "cfg_obfuscate"
         /\ ~WellFormed(obf_configs[ci])
         /\ exc = CalledProcessError(WaitStatus(1))

C3_CwdRestored ==
    (pc \in Exited /\ tmp_dir # "none") => cwd = "old_cwd"

\* C4: add_result is called once per measured iteration and never for a
\* warmup iteration: inside iteration `it` of a configuration the store
\* holds one record per measured iteration before it, and at the normal
\* return every configuration has exactly `runs` records.
C4_RunsRecords ==
    /\ pc \in InIteration =>
         /\ added[ci] = Max(0, it - 1 - warmup)
         /\ Samples(ConfigName(obf_configs[ci])) = added[ci]
    /\ pc = "returned" =>
         \A i \in DOMAIN obf_configs :
             /\ added[i] = runs
             /\ Samples(ConfigName(obf_configs[i])) = runs

\* A normal return after one warmup and two measured runs of each of two
\* configurations.
C4_Witness ==
    /\ pc = "returned" /\ warmup = 1 /\ runs = 2 /\ Len(obf_configs) = 2

C6_GettersNeedRun ==
    /\ \A i \in DOMAIN monitors : \A g \in Getters :
           monitors[i].completed = 0 => Get(g, monitors[i]) = NotYetRun
    /\ (ret.call \in Getters /\ monitors[ret.on].completed = 0) =>
           ret.result = NotYetRun

\* A getter called on a monitor whose only run() raised.
C6_Witness ==
    /\ ret.call = "wall_time" /\ ret.result = NotYetRun
    /\ monitors[ret.on].started = 1 /\ monitors[ret.on].completed = 0

C8_NoEmptySpawn ==
    /\ (ret.call = "__init__" /\ ret.args = <<>>) =>
           ret.result = Raised(Raise("ValueError")) /\ ret.on = 0
    /\ \A i \in DOMAIN monitors : Len(monitors[i]._args) > 0
    /\ \A c \in spawned : Len(c) > Len(TimeWrapper)

\* An empty vector was tried after a command had been spawned.
C8_Witness ==
    /\ ret.call = "__init__" /\ ret.args = <<>> /\ ~ret.result.ok
    /\ spawned # {}

\* C9: run() is executed at most once on each monitor of an iteration, and
\* the obfuscator, the -O0 compile and the executable each have a monitor
\* of their own.
C9_RunOnce ==
    /\ \A i \in DOMAIN monitors :
           monitors[i].started <= 1 /\ monitors[i].completed <= 1
    /\ \A x, y \in {obf_monitor, gcc1_monitor, prg_monitor} \ {0} :
           monitors[x]._args = monitors[y]._args => x = y
    /\ pc = "step" =>
           Len(monitors) = IF optimization_level > 0 THEN 4 ELSE 3

\* The second iteration of a configuration at a level above 0, its four
\* monitors each run once.
C9_Witness ==
    /\ pc = "step" /\ optimization_level > 0 /\ it = 2
    /\ \A i \in DOMAIN monitors : monitors[i].started = 1

\* C10: the obfuscation times a measured iteration records are
\* max(0, obfuscator reading - -O0 compile reading) of the monitors of that
\* iteration, so never negative.
C10_ObfuscationTime ==
    [][(pc = "step" /\ it > warmup /\ pc' # "raised") =>
         LET n == ConfigName(obf_configs[ci])
             k == Samples(n) + 1
             obf == monitors[obf_monitor]
             gcc1 == monitors[gcc1_monitor]
             Clamp(x) == IF x < 0 THEN 0 ELSE x
         IN  /\ Len(results'[n]["obfuscation_wall_time"]) = k
             /\ results'[n]["obfuscation_wall_time"][k] =
                    Clamp(obf._wall_time - gcc1._wall_time)
             /\ results'[n]["obfuscation_user_time"][k] =
                    Clamp(obf._resource_usage.utime
                          - gcc1._resource_usage.utime)
             /\ results'[n]["obfuscation_system_time"][k] =
                    Clamp(obf._resource_usage.stime
                          - gcc1._resource_usage.stime)
             /\ results'[n]["obfuscation_wall_time"][k] >= 0
             /\ results'[n]["obfuscation_user_time"][k] >= 0
             /\ results'[n]["obfuscation_system_time"][k] >= 0]_vars

\* A record whose wall time was clamped (the compile reading exceeded the
\* obfuscator's) while its user time was not.
C10_Witness ==
    \E n \in DOMAIN results :
        \E k \in DOMAIN results[n]["obfuscation_wall_time"] :
            /\ results[n]["obfuscation_wall_time"][k] = 0
            /\ results[n]["obfuscation_user_time"][k] = 3

C12_SingleSample ==
    ret.call = "get_average_results" =>
        /\ ret.result.ok
        /\ \A n \in DOMAIN results : \A m \in DOMAIN results[n] :
               Len(results[n][m]) = 1 =>
                   /\ ret.result.val[1][n][m] = <<results[n][m][1], 1>>
                   /\ ret.result.val[2][n][m] = <<0, 1>>

\* The aggregates of a store that holds one sample under "a" and two
\* under "b".
C12_Witness ==
    /\ ret.call = "get_average_results" /\ ret.result.ok
    /\ DOMAIN results = {"a", "b"}
    /\ Len(results["a"]["execution_wall_time"]) = 1
    /\ Len(results["b"]["execution_wall_time"]) = 2

\* C13: after one add_result(r) on the empty container, metric_results(f)
\* for a metric field f (a field of Result other than the name) returns a
\* mapping whose only entry is the list <<r[f]>> under r.name.
C13_AddThenMetricResults ==
    (/\ ret.call = "metric_results" /\ Len(log) = 1
     /\ ret.args[1] \in Range(Tail(Fields))) =>
        /\ ret.result.ok
        /\ DOMAIN ret.result.val = {log[1].name}
        /\ ret.result.val[log[1].name] = <<log[1][ret.args[1]]>>

\* metric_results("compile_user_time") after the first add_result.
C13_Witness ==
    /\ ret.call = "metric_results" /\ Len(log) = 1
    /\ ret.args = <<"compile_user_time">> /\ ret.result.ok
    /\ log[1].name = "b"

\* C14: metric_results with a name that is no field of Result raises the
\* RuntimeError of its check, whatever the store holds, and the store is
\* the same after the call.
C14_UnknownMetric ==
    [][(ret'.call = "metric_results" /\ ret'.args[1] \notin Range(Fields)) =>
         /\ ret'.result = Raised(Raise("RuntimeError"))
         /\ results' = results]_vars

\* An unknown name asked of a store that holds samples.
C14_Witness ==
    /\ ret.call = "metric_results" /\ ret.args = <<"wall_time">>
    /\ ~ret.result.ok /\ DOMAIN results = {"a", "b"}

\* C15: add_result(r) appends r's value at the end of each metric list of
\* r.name, keeps the samples stored before at their positions and leaves
\* the other names alone; so the lists of a name have one length and hold
\* the values of the Results added under the name, in the order of the
\* calls.
C15_AppendOnly ==
    [][ret'.call = "add_result" =>
         LET r == ret'.args[1]
             metrics == Range(Tail(Fields))
             OldList(m) == IF r.name \in DOMAIN results
                           THEN results[r.name][m] ELSE <<>>
             Of(n) == SelectSeq(log', LAMBDA x : x.name = n)
         IN  /\ DOMAIN results' = DOMAIN results \cup {r.name}
             /\ \A n \in DOMAIN results \ {r.name} : results'[n] = results[n]
             /\ DOMAIN results'[r.name] = metrics
             /\ \A m \in metrics :
                    /\ Len(results'[r.name][m]) = Len(OldList(m)) + 1
                    /\ SubSeq(results'[r.name][m], 1, Len(OldList(m)))
                           = OldList(m)
                    /\ results'[r.name][m][Len(OldList(m)) + 1] = r[m]
             /\ \A n \in DOMAIN results' : \A m \in metrics :
                    /\ Len(results'[n][m]) = Len(Of(n))
                    /\ \A i \in DOMAIN Of(n) :
                           results'[n][m][i] = Of(n)[i][m]]_vars

\* Three Results added: two different ones under "a", with one under "b"
\* between them.
C15_Witness ==
    /\ ret.call = "add_result" /\ Len(log) = 3
    /\ log[1].name = "a" /\ log[2].name = "b" /\ log[3].name = "a"
    /\ log[1] # log[3]

\* C18: the names of the store are the names a Result was added under, no
\* list of the store is empty, and get_average_results raises nothing and
\* has, in both mappings, a row for each of these names and for no other.
C18_RowsOfAddedNames ==
    LET added_names == {log[i].name : i \in DOMAIN log}
        rows == get_average_results(results)
    IN  /\ DOMAIN results = added_names
        /\ \A n \in DOMAIN results : \A m \in DOMAIN results[n] :
               Len(results[n][m]) >= 1
        /\ rows.ok
        /\ DOMAIN rows.val[1] = added_names
        /\ DOMAIN rows.val[2] = added_names
        /\ ret.call = "get_average_results" => ret.result = rows

\* The aggregates of a store after two Results under "a" and none under
\* "b": the only row is the row of "a".
C18_Witness ==
    /\ ret.call = "get_average_results" /\ Len(log) = 2
    /\ DOMAIN ret.result.val[1] = {"a"}
    /\ "b" \notin DOMAIN results

\* C16: the static metrics of a configuration are computed only at the
\* position before its first iteration, when no iteration of it has begun
\* and no Result of it is stored; ncd and halstead_difficulty are assigned
\* nowhere else, so every Result of a configuration carries the values
\* computed there.
C16_StaticMetricsOnce ==
    [][/\ pc = "cfg_metrics" =>
            /\ it = 0 /\ added[ci] = 0
            /\ iterations = (ci - 1) * (warmup + runs)
            /\ Samples(ConfigName(obf_configs[ci])) = 0
       /\ (ncd' # ncd \/ halstead_difficulty' # halstead_difficulty) =>
            /\ pc = "cfg_metrics" /\ pc' = "obfuscate"
            /\ ci' = ci /\ it' = 1
       /\ (pc' = "cfg_metrics" /\ pc # "cfg_metrics") =>
            (pc = "cfg_obfuscate" /\ it = 0)
       /\ ci' >= ci
       /\ pc \in InIteration =>
            /\ ncd = NcdOf(obf_configs[ci])
            /\ halstead_difficulty = HalsteadOf(obf_configs[ci])
       /\ \A i \in DOMAIN obf_configs :
            LET n == ConfigName(obf_configs[i])
            IN  \A k \in 1..Samples(n) :
                    /\ results[n]["norm_compression_distance"][k]
                           = NcdOf(obf_configs[i])
                    /\ results[n]["halstead_difficulty"][k]
                           = HalsteadOf(obf_configs[i])]_vars

\* The second of two configurations is in its second measured iteration;
\* the two Results of the first carry its metrics, which are not the ones
\* of the second.
C16_Witness ==
    /\ pc = "step" /\ ci = 2 /\ Samples(ConfigName(obf_configs[1])) = 2
    /\ Samples(ConfigName(obf_configs[2])) = 1
    /\ ncd # NcdOf(obf_configs[1])
    /\ results[ConfigName(obf_configs[1])]["norm_compression_distance"]
           = <<NcdOf(obf_configs[1]), NcdOf(obf_configs[1])>>

\* C17: at most one child of the pipeline is in flight: it is the child of
\* the run() being executed, for the command of the stage perform_analysis
\* is at; where no run() is being executed (between the stages, and where
\* the tools of the static metrics are called) none is in flight, and a
\* child is spawned only when none is.
C17_OneInFlight ==
    [][/\ in_flight \in {0, 1}
       /\ in_flight = (IF p = NoChild THEN 0 ELSE 1)
       /\ (pc \notin CallSites \cup Exited) => in_flight = 0
       /\ (p # NoChild /\ pc \in CallSites) => p = TimeWrapper \o CallAt(pc)
       /\ in_flight' > in_flight => (in_flight = 0 /\ in_flight' = 1)
       /\ (pc' # pc /\ pc \in CallSites /\ exc'.type # "SystemExit") =>
              (in_flight = 1 /\ in_flight' = 0)]_vars

\* The optimized compile of the second iteration of the second
\* configuration is in flight.
C17_Witness ==
    /\ pc = "compile_Ok" /\ in_flight = 1 /\ ci = 2 /\ it = 2
    /\ p = TimeWrapper \o gcc_call(optimization_level)

\* C19 as claimed: an interrupt that arrives while a child is in flight
\* takes effect between iterations only: when it makes perform_analysis
\* leave, the child has been waited for, the iteration is not left open and
\* the working directory is the saved one again.
C19_InterruptBetweenIterations ==
    [][(exc'.type = "SystemExit" /\ exc.type # "SystemExit"
        /\ in_flight = 1) =>
           /\ in_flight' = 0
           /\ ~last'.open
           /\ cwd' = "old_cwd"]_vars

\* An interrupt that arrived while the -O0 compile of an iteration was in
\* flight.
C19_Witness ==
    /\ exc.type = "SystemExit" /\ pc = "raised"
    /\ in_flight = 1 /\ p = TimeWrapper \o gcc_call(0)
    /\ last.open

\* C20 as claimed: the minor page faults a measured iteration records are
\* the minor page faults of its execution monitor, the major ones its major
\* ones, and the total is their sum.
C20_PageFaults ==
    [][(pc = "step" /\ it > warmup /\ pc' # "raised") =>
         LET n == ConfigName(obf_configs[ci])
             k == Samples(n) + 1
             prg == monitors[prg_monitor]
         IN  /\ results'[n]["execution_minor_page_faults"][k]
                    = prg._resource_usage.minflt
             /\ results'[n]["execution_major_page_faults"][k]
                    = prg._resource_usage.majflt
             /\ results'[n]["execution_total_page_faults"][k]
                    = prg._resource_usage.minflt
                      + prg._resource_usage.majflt]_vars

\* C21 as claimed: the distance is a number of [0, 1], no division by zero
\* occurs, and the distance of a file to itself is about 0 (here: below
\* one half).
C21_NcdRangeAndIdentity ==
    ret.call = "normalized_compression_distance" =>
        /\ ret.result.ok
        /\ ret.result.val[2] > 0
        /\ 0 <= ret.result.val[1]
        /\ ret.result.val[1] <= ret.result.val[2]
        /\ ret.cause = "same_file" =>
               2 * ret.result.val[1] < ret.result.val[2]

\* The part of C21 that holds: the distance is a number of [0, 1] and no
\* division by zero occurs, whatever the three sizes are.
C21_NcdRange ==
    ret.call = "normalized_compression_distance" =>
        /\ ret.result.ok
        /\ ret.result.val[2] > 0
        /\ 0 <= ret.result.val[1]
        /\ ret.result.val[1] <= ret.result.val[2]

\* A file compared with itself, the two copies compressing to twice the
\* size of one (and more): the distance is 1.
C21_Witness ==
    /\ ret.call = "normalized_compression_distance"
    /\ ret.cause = "same_file"
    /\ ret.args[1] > 2 * ret.args[2]
    /\ ret.result = Returns(<<1, 1>>)

\* C22: for every list of paths of configuration files (also the empty
\* one) load_obfuscation_configs returns the identity configuration first
\* and then one configuration per path, in the order of the paths: 1 + n
\* configurations, never none.  A path that cannot be read raises OSError.
C22_IdentityFirst ==
    ret.call = "load_obfuscation_configs" =>
        /\ ret.result.ok <=> ret.cause = "readable"
        /\ ret.result.ok =>
             /\ Len(ret.result.val) = 1 + Len(ret.args)
             /\ ret.result.val[1] = __NORMAL_CONFIG
             /\ \A i \in 1..Len(ret.args) :
                  /\ ret.result.val[i + 1].path = ret.args[i]
                  /\ ret.result.val[i + 1].params
                       = shlex_split(ConfigFiles[ret.args[i]])
        /\ ~ret.result.ok => ret.result.val = Raise("OSError")

\* Two paths loaded, the second one first in the list of the caller.
C22_Witness ==
    /\ ret.call = "load_obfuscation_configs"
    /\ ret.args = <<Path("other", "flatten", ".txt"), FlattenConfig.path>>
    /\ ret.result.ok
    /\ Len(ret.result.val) = 3
    /\ ret.result.val[3] = FlattenConfig

\* C23 as claimed: a missing TIGRESS_HOME, an unreadable source file, a
\* missing executable and a tool that exited non-zero end the program with
\* an exit code that is the code of no other of these categories (and not
\* the code of success).
C23_CategoryExceptions ==
    {Raise("RuntimeError"), Raise("OSError"),
     CalledProcessError(WaitStatus(WrapperNotFoundCode)),
     CalledProcessError(WaitStatus(1))}

C23_DistinctExitCodes ==
    (ret.call = "main" /\ ret.cause # "none") =>
        /\ ret.result.val # NO_ERROR
        /\ \A e \in C23_CategoryExceptions :
             FailureCategory(e) # ret.cause
                => main_exit_code(e) # ret.result.val

\* The program ended because TIGRESS_HOME is not set, with the exit code
\* of an unreadable source file.
C23_Witness ==
    /\ ret.call = "main"
    /\ ret.cause = "missing_tigress_home"
    /\ ~tigress_home
    /\ ret.result.val = SOURCE_CODE_NOT_FOUND

\* C24 as claimed: run() of a monitor created with check=False, the child
\* exiting with code c, returns c.
C24_ReturnsExitCode ==
    (ret.call = "run" /\ ~monitors[ret.on]._check) =>
        ret.result = Returns(ret.args[1])

\* check=False, the command exits with 1 and run() returns 256.
C24_Witness ==
    /\ ret.call = "run"
    /\ ~monitors[ret.on]._check
    /\ ret.cause = "nonzero"
    /\ ret.args[1] = 1
    /\ ret.result = Returns(StatusShift)

\* C25: in an iteration the commands are started in the order obfuscate,
\* compile -O0, compile -Ok (only at a level k above 0), run, each one only
\* after every earlier one of the iteration returned from a checked run();
\* the executable that is run, and whose size a measured iteration records,
\* is the one the last compile of this iteration wrote.
C25_IterationCommands(stage) ==
    LET obf == <<obf_call(obf_configs[ci])>>
        gcc1 == <<<<"gcc", "-O0", "obf_file">>>>
        gcc2 == IF optimization_level > 0
                THEN <<<<"gcc", OptFlag(optimization_level), "obf_file">>>>
                ELSE <<>>
    IN  CASE stage = "obfuscate" -> <<>>
          [] stage = "compile_O0" -> obf
          [] stage = "compile_Ok" -> obf \o gcc1
          [] stage = "run" -> obf \o gcc1 \o gcc2
          [] OTHER -> obf \o gcc1 \o gcc2 \o <<run_call>>

C25_FreshExecutable ==
    /\ a_out.iteration = iterations
    /\ a_out.level = optimization_level
    /\ a_out.bytes = AoutBytes(obf_configs[ci], optimization_level)

C25_StagesInOrder ==
    [][/\ (pc \in IterationStages /\ p = NoChild /\ p' # NoChild) =>
            /\ [i \in DOMAIN monitors |-> monitors[i]._args]
                   = C25_IterationCommands(pc)
            /\ \A i \in DOMAIN monitors :
                   /\ monitors[i]._check /\ monitors[i]._run
                   /\ monitors[i].started = 1 /\ monitors[i].completed = 1
            /\ pc = "compile_Ok" => optimization_level > 0
            /\ pc = "run" => C25_FreshExecutable
       /\ (pc = "step" /\ it > warmup /\ pc' # "raised") =>
            LET n == ConfigName(obf_configs[ci])
                k == Len(results'[n]["executable_size"])
            IN  /\ [i \in DOMAIN monitors |-> monitors[i]._args]
                       = C25_IterationCommands(pc)
                /\ C25_FreshExecutable
                /\ results'[n]["executable_size"][k]
                       = KiloBytes(AoutBytes(obf_configs[ci],
                                             optimization_level))]_vars

\* The second iteration of a configuration at level 2 is about to run its
\* executable: the -O2 build of this iteration, while an executable of the
\* first iteration was there before.
C25_Witness ==
    /\ pc = "run" /\ p # NoChild
    /\ optimization_level = 2
    /\ iterations = 2
    /\ a_out = Built(obf_configs[ci], 2, 2)

\* C26 as claimed: the difficulty of a function is parsed from the file
\* its own invocation of the tool wrote; an invocation that exits with zero
\* and writes no file, or a file without the field, makes the computation
\* fail.
C26_OwnMetricsFile ==
    (ret.call = "halstead_difficulty" /\ ret.cause \in TigressOutcomes) =>
        /\ ret.result.ok => ret.args[3] = ret.args[2]
        /\ ret.cause \in {"wrote_no_field", "wrote_nothing"}
              => ~ret.result.ok

\* The second call, for another obfuscated file: the tool wrote nothing
\* and the difficulty added is the one an invocation of the first call
\* left in metrics.json.
C26_Witness ==
    /\ ret.call = "halstead_difficulty" /\ ret.cause = "wrote_nothing"
    /\ ret.result.ok
    /\ hd_calls = 2
    /\ ret.args[3] < ret.args[2]
    /\ hpc.obf_path = "source-flatten.c"
    /\ metrics_json.difficulty
         = FunctionDifficulty("source-00-normal.c", "main")

\* C27 as claimed: after a run() that returned, the command having exited
\* with 0, stderr() is exactly what the command wrote on its stderr and
\* max_memory() is the number of the last line of the wrapper.
C27_StderrRestored ==
    (ret.call = "run" /\ ret.result.ok /\ ret.cause = "exit0") =>
        /\ stderr(monitors[ret.on]) = Returns(ret.args[2])
        /\ max_memory(monitors[ret.on]) = Returns(ret.args[3])

\* The command wrote one line ending in a newline; stderr() is that line
\* followed by two newlines.
C27_Witness ==
    /\ ret.call = "run" /\ ret.result.ok /\ ret.cause = "exit0"
    /\ ret.args[2] = <<Txt(3), NL>>
    /\ stderr(monitors[ret.on]) = Returns(<<Txt(3), NL, NL>>)
    /\ max_memory(monitors[ret.on]) = Returns(ret.args[3])

\* C28 as claimed: run() never ends up with the child blocked in a write
\* to a full stderr pipe while the parent is blocked reading stdout, so it
\* returns for every child that ends once its output is consumed.
C28_ChildBlockedOnStderr ==
    /\ stderr_pipe = PipeCapacity
    /\ \/ child.state = "reporting"
       \/ /\ child.state = "running" /\ child.todo # <<>>
          /\ Head(child.todo) = "stderr"

C28_NoPipeDeadlock ==
    ~(/\ parent = "read_stdout" /\ stdout_pipe = 0
      /\ C28_ChildBlockedOnStderr)

\* The command has filled the stderr pipe and has more to write on it;
\* the parent waits for the end of stdout: no step is possible.
C28_Witness ==
    /\ parent = "read_stdout" /\ stdout_pipe = 0
    /\ child.state = "running"
    /\ child.todo = <<"stderr">>
    /\ stderr_pipe = PipeCapacity
    /\ ~ENABLED NextPipe

\* C29 as claimed: after perform_analysis returned for n configurations
\* with pairwise different paths, the store holds n names with `runs`
\* samples each; no two configurations share a name.
C29_OneNamePerConfig ==
    (pc = "returned"
     /\ \A i, j \in DOMAIN obf_configs :
           obf_configs[i].path = obf_configs[j].path => i = j) =>
        /\ Cardinality(DOMAIN results) = Len(obf_configs)
        /\ \A i \in DOMAIN obf_configs :
              Samples(ConfigName(obf_configs[i])) = runs
        /\ \A i, j \in DOMAIN obf_configs :
              ConfigName(obf_configs[i]) = ConfigName(obf_configs[j])
                 => i = j

\* configs/flatten.txt and other/flatten.txt: perform_analysis returned
\* and the samples of both are under the one name "flatten".
C29_Witness ==
    /\ pc = "returned"
    /\ Len(obf_configs) = 3
    /\ obf_configs[2].path = FlattenConfig.path
    /\ obf_configs[3].path = Path("other", "flatten", ".txt")
    /\ DOMAIN results = {"00-normal", "flatten"}
    /\ Samples("flatten") = 2 * runs
    /\ Samples("00-normal") = runs

\* C30 as claimed: for every field name of Result and every store,
\* metric_results returns a mapping or raises the RuntimeError of an
\* unknown metric, never another error.
C30_FieldsAreMetrics ==
    (ret.call = "metric_results" /\ ret.args[1] \in Range(Fields)) =>
        \/ ret.result.ok
        \/ ret.result = Raised(Raise("RuntimeError"))

\* metric_results("name") on a store holding samples raises KeyError.
C30_Witness ==
    /\ ret.call = "metric_results" /\ ret.args = <<"name">>
    /\ DOMAIN results # {}
    /\ ret.result = Raised(Raise("KeyError"))


====
